---- MODULE Spec2Model ----
(***************************************************************************)
(* nipype command-line wrappers: the Conmat interface                      *)
(* (nipype/interfaces/camino/connectivity.py), the SmoothTessellation      *)
(* input specification (freesurfer/tests/test_auto_SmoothTessellation.py), *)
(* and the validation / rendering contract of spec.md sections 4.2-4.4.    *)
(*                                                                         *)
(* A string is a sequence of atoms.  The separators "/" and "." are always *)
(* atoms of their own; "_" is an atom of its own; every other atom is a    *)
(* run of characters that contains none of them.  Str flattens a string.   *)
(* An input field holds Undefined (<<>>) or <<v>>, v its value.            *)
(***************************************************************************)
EXTENDS Integers, Sequences, FiniteSets, TLC

VARIABLES
    inputs,   \* inputs[self][field]: the traits of each interface instance
    phase,    \* phase[self]: "Unpopulated", "Populated" or "Rendered"
    cwd,      \* the process's current working directory (os.getcwd())
    ret,      \* what the operation that just completed returned or raised
    saved     \* an earlier _list_outputs result the caller kept

vars == <<inputs, phase, cwd, ret, saved>>

\* ------------------------------------------------------------------ strings

RECURSIVE Str(_)
Str(s) == IF s = <<>> THEN "" ELSE Head(s) \o Str(Tail(s))

Undefined == <<>>
Def(v) == <<v>>
isdefined(x) == x # Undefined
Val(x) == x[1]

\* str.lower() on the atoms the model uses
lower(a) == CASE a = "NII" -> "nii" [] a = "GZ" -> "gz" [] OTHER -> a

lowerAll(s) == [i \in 1..Len(s) |-> lower(s[i])]

\* str.rfind: the last index of atom a in s, 0 when there is none
rfind(s, a) ==
    LET I == {i \in 1..Len(s) : s[i] = a}
    IN  IF I = {} THEN 0 ELSE CHOOSE i \in I : \A j \in I : j <= i

RECURSIVE rstripSlash(_)
rstripSlash(s) ==
    IF s # <<>> /\ s[Len(s)] = "/" THEN rstripSlash(SubSeq(s, 1, Len(s) - 1)) ELSE s

\* ------------------------------------------------------------- posixpath

basename(p) == SubSeq(p, rfind(p, "/") + 1, Len(p))

dirname(p) ==
    LET head == SubSeq(p, 1, rfind(p, "/"))
    IN  IF head # <<>> /\ \E i \in 1..Len(head) : head[i] # "/"
        THEN rstripSlash(head) ELSE head

\* posixpath.splitext: the extension starts at the last dot of the last
\* component, unless only dots precede it there
splitext(p) ==
    LET sepIndex == rfind(p, "/")
        dotIndex == rfind(p, ".")
    IN  IF dotIndex > sepIndex
           /\ \E k \in (sepIndex + 1)..(dotIndex - 1) : p[k] # "."
        THEN [root |-> SubSeq(p, 1, dotIndex - 1), ext |-> SubSeq(p, dotIndex, Len(p))]
        ELSE [root |-> p, ext |-> <<>>]

isabs(p) == p # <<>> /\ p[1] = "/"

join(a, b) ==
    IF isabs(b) THEN b
    ELSE IF a = <<>> \/ a[Len(a)] = "/" THEN a \o b
    ELSE a \o <<"/">> \o b

\* str.split('/'): the components between the separators
RECURSIVE splitSlash(_)
splitSlash(s) ==
    LET I == {i \in 1..Len(s) : s[i] = "/"}
    IN  IF I = {} THEN <<s>>
        ELSE LET i == CHOOSE k \in I : \A j \in I : k <= j
             IN  <<SubSeq(s, 1, i - 1)>> \o splitSlash(SubSeq(s, i + 1, Len(s)))

RECURSIVE joinSlash(_)
joinSlash(comps) ==
    IF comps = <<>> THEN <<>>
    ELSE IF Len(comps) = 1 THEN comps[1]
    ELSE comps[1] \o <<"/">> \o joinSlash(Tail(comps))

dot == <<".">>
dotdot == <<".", ".">>

RECURSIVE normComps(_, _, _)
normComps(comps, new, initial_slashes) ==
    IF comps = <<>> THEN new
    ELSE LET comp == Head(comps)
         IN  IF comp = <<>> \/ comp = dot
             THEN normComps(Tail(comps), new, initial_slashes)
             ELSE IF comp # dotdot
                     \/ (initial_slashes = 0 /\ new = <<>>)
                     \/ (new # <<>> /\ new[Len(new)] = dotdot)
             THEN normComps(Tail(comps), Append(new, comp), initial_slashes)
             ELSE IF new # <<>>
             THEN normComps(Tail(comps), SubSeq(new, 1, Len(new) - 1), initial_slashes)
             ELSE normComps(Tail(comps), new, initial_slashes)

normpath(path) ==
    IF path = <<>> THEN dot
    ELSE LET initial_slashes ==
                 IF ~isabs(path) THEN 0
                 ELSE IF Len(path) >= 2 /\ path[2] = "/"
                         /\ ~(Len(path) >= 3 /\ path[3] = "/")
                 THEN 2 ELSE 1
             body == joinSlash(normComps(splitSlash(path), <<>>, initial_slashes))
             out == [i \in 1..initial_slashes |-> "/"] \o body
         IN  IF out = <<>> THEN dot ELSE out

\* os.path.abspath, with os.getcwd() passed in
abspath(dir, path) == normpath(IF isabs(path) THEN path ELSE join(dir, path))

\* ------------------------------------------------- nipype.utils.filemanip

special_extensions == << <<".", "nii", ".", "gz">>, <<".", "tar", ".", "gz">> >>

\* split_filename: directory, stem and extension of a file name; the special
\* extensions are matched case-insensitively before os.path.splitext is tried
split_filename(fname) ==
    LET pth == dirname(fname)
        base == basename(fname)
        hits == {k \in 1..Len(special_extensions) :
                    LET ext_len == Len(special_extensions[k])
                    IN  /\ Len(base) > ext_len
                        /\ lowerAll(SubSeq(base, Len(base) - ext_len + 1, Len(base)))
                             = special_extensions[k]}
    IN  IF hits # {}
        THEN LET k == CHOOSE h \in hits : \A j \in hits : h <= j
                 ext_len == Len(special_extensions[k])
             IN  [pth |-> pth,
                  fname |-> SubSeq(base, 1, Len(base) - ext_len),
                  ext |-> SubSeq(base, Len(base) - ext_len + 1, Len(base))]
        ELSE [pth |-> pth, fname |-> splitext(base).root, ext |-> splitext(base).ext]

\* ------------------------------------------------------------ the Conmat class

\* What a method returns: a value, or the exception it ends in
Returned(v) == [ok |-> TRUE, error |-> "", value |-> v]
Raised(e) == [ok |-> FALSE, error |-> e, value |-> <<>>]

_cmd == "conmat"

\* Faulty variant: the default root without its trailing "_"
_gen_filename_no_separator(self_inputs, name) ==
    IF name = "output_root"
    THEN IF ~isdefined(self_inputs.in_file) THEN Raised("SplitFilenameError")
         ELSE Returned(split_filename(Val(self_inputs.in_file)).fname)
    ELSE Raised("UnboundLocalError")

\* Conmat._gen_filename: `filename` is bound only for name = 'output_root';
\* split_filename does not accept an undefined in_file
_gen_filename(self_inputs, name) ==
    IF name = "output_root"
    THEN IF ~isdefined(self_inputs.in_file) THEN Raised("SplitFilenameError")
         ELSE Returned(split_filename(Val(self_inputs.in_file)).fname \o <<"_">>)
    ELSE Raised("UnboundLocalError")

\* Faulty variant: the default rule is applied even when output_root is set
_gen_outputroot_always_default(self_inputs) == _gen_filename(self_inputs, "output_root")

_gen_outputroot(self_inputs) ==
    IF ~isdefined(self_inputs.output_root)
    THEN _gen_filename(self_inputs, "output_root")
    ELSE Returned(Val(self_inputs.output_root))

_gen_outfilename(self_inputs) == _gen_outputroot(self_inputs)

NoOutputs == [conmat_sc |-> Undefined, conmat_ts |-> Undefined]

\* Faulty variant: the outputs are anchored at the directory of in_file
_list_outputs_at_input_dir(self_inputs, dir) ==
    LET output_root == _gen_outputroot(self_inputs)
        pth == IF isdefined(self_inputs.in_file)
               THEN split_filename(Val(self_inputs.in_file)).pth ELSE <<>>
    IN  IF ~output_root.ok THEN Raised(output_root.error)
        ELSE Returned([conmat_sc |-> Def(abspath(dir, join(pth, output_root.value \o <<"sc", ".", "csv">>))),
                       conmat_ts |-> Def(abspath(dir, join(pth, output_root.value \o <<"ts", ".", "csv">>)))])

\* Faulty variant: the inputs are read from one instance whichever instance is asked
_list_outputs_shared(self_inputs, dir) ==
    LET output_root == _gen_outputroot(inputs["conmat"])
    IN  IF ~output_root.ok THEN Raised(output_root.error)
        ELSE Returned([conmat_sc |-> Def(abspath(dir, output_root.value \o <<"sc", ".", "csv">>)),
                       conmat_ts |-> Def(abspath(dir, output_root.value \o <<"ts", ".", "csv">>))])

\* Conmat._list_outputs, with os.getcwd() passed in as dir
_list_outputs(self_inputs, dir) ==
    LET output_root == _gen_outputroot(self_inputs)
    IN  IF ~output_root.ok THEN Raised(output_root.error)
        ELSE Returned([conmat_sc |-> Def(abspath(dir, output_root.value \o <<"sc", ".", "csv">>)),
                       conmat_ts |-> Def(abspath(dir, output_root.value \o <<"ts", ".", "csv">>))])

\* ------------------------------------------------- the input specifications

\* One declared field (a FieldSpec): argstr is the argument template, token
\* by token, <<>> when the field is not rendered; position is Undefined or
\* <<ordinal>>; kind is "value" (%s), "int" (%d) or "flag" (no placeholder).
\* Tokens are atomic, so blanks inside a template only separate its tokens
Field(argstr, kind) ==
    [argstr |-> argstr, kind |-> kind, mandatory |-> FALSE, exists |-> FALSE,
     requires |-> {}, xor |-> {}, genfile |-> FALSE, position |-> Undefined]

tract_stat_values == {"mean", "min", "max", "sum", "median", "var"}
tract_prop_values == {"length", "endpointsep"}

ConmatFields ==
    <<"in_file", "target_file", "scalar_file", "targetname_file",
      "tract_stat", "tract_prop", "output_root">>

\* The traits of ConmatInputSpec, one definition per declaration
Conmat_in_file ==
    [Field(<<"-inputfile", "%s">>, "value") EXCEPT !.exists = TRUE, !.mandatory = TRUE]

\* Faulty variant: target_file declared without mandatory=True
Conmat_target_file_optional ==
    [Field(<<"-targetfile", "%s">>, "value") EXCEPT !.exists = TRUE]

Conmat_target_file ==
    [Field(<<"-targetfile", "%s">>, "value") EXCEPT !.exists = TRUE, !.mandatory = TRUE]

\* Faulty variant: scalar_file declared without requires=['tract_stat']
Conmat_scalar_file_no_requires ==
    [Field(<<"-scalarfile", "%s">>, "value") EXCEPT !.exists = TRUE]

Conmat_scalar_file ==
    [Field(<<"-scalarfile", "%s">>, "value")
        EXCEPT !.exists = TRUE, !.requires = {"tract_stat"}]

Conmat_targetname_file ==
    [Field(<<"-targetnamefile", "%s">>, "value") EXCEPT !.exists = TRUE]

\* Faulty variant: tract_stat declared without requires=['scalar_file']
Conmat_tract_stat_no_requires ==
    [Field(<<"-tractstat", "%s">>, "value") EXCEPT !.xor = {"tract_prop"}]

Conmat_tract_stat ==
    [Field(<<"-tractstat", "%s">>, "value")
        EXCEPT !.requires = {"scalar_file"}, !.xor = {"tract_prop"}]

\* Faulty variant: tract_prop declared without xor=['tract_stat']
Conmat_tract_prop_no_xor == Field(<<"-tractstat", "%s">>, "value")

Conmat_tract_prop ==
    [Field(<<"-tractstat", "%s">>, "value") EXCEPT !.xor = {"tract_stat"}]

Conmat_output_root ==
    [Field(<<"-outputroot", "%s">>, "value") EXCEPT !.genfile = TRUE]

ConmatInputSpec ==
    [in_file |-> Conmat_in_file,
     target_file |-> Conmat_target_file,
     scalar_file |-> Conmat_scalar_file,
     targetname_file |-> Conmat_targetname_file,
     tract_stat |-> Conmat_tract_stat,
     tract_prop |-> Conmat_tract_prop,
     output_root |-> Conmat_output_root]

SmoothFields ==
    <<"args", "curvature_averaging_iterations", "disable_estimates", "environ",
      "gaussian_curvature_norm_steps", "gaussian_curvature_smoothing_steps",
      "ignore_exception", "in_file", "normalize_area", "out_area_file",
      "out_curvature_file", "out_file", "seed", "smoothing_iterations",
      "snapshot_writing_iterations", "subjects_dir", "terminal_output",
      "use_gaussian_curvature_smoothing", "use_momentum">>

\* The two positioned traits of the SmoothTessellation input specification
Smooth_in_file ==
    [Field(<<"%s">>, "value") EXCEPT !.mandatory = TRUE, !.position = <<-2>>]

\* Faulty variant: out_file declared without position=-1
Smooth_out_file_unpositioned ==
    [Field(<<"%s">>, "value") EXCEPT !.genfile = TRUE]

Smooth_out_file ==
    [Field(<<"%s">>, "value") EXCEPT !.genfile = TRUE, !.position = <<-1>>]

SmoothTessellationInputSpec ==
    [args |-> Field(<<"%s">>, "value"),
     curvature_averaging_iterations |-> Field(<<"-a", "%d">>, "int"),
     disable_estimates |-> Field(<<"-nw">>, "flag"),
     environ |-> Field(<<>>, "value"),
     gaussian_curvature_norm_steps |-> Field(<<"%d">>, "int"),
     gaussian_curvature_smoothing_steps |-> Field(<<"%d">>, "int"),
     ignore_exception |-> Field(<<>>, "flag"),
     in_file |-> Smooth_in_file,
     normalize_area |-> Field(<<"-area">>, "flag"),
     out_area_file |-> Field(<<"-b", "%s">>, "value"),
     out_curvature_file |-> Field(<<"-c", "%s">>, "value"),
     out_file |-> Smooth_out_file,
     seed |-> Field(<<"-seed", "%d">>, "int"),
     smoothing_iterations |-> Field(<<"-n", "%d">>, "int"),
     snapshot_writing_iterations |-> Field(<<"-w", "%d">>, "int"),
     subjects_dir |-> Field(<<>>, "value"),
     terminal_output |-> Field(<<>>, "value"),
     use_gaussian_curvature_smoothing |-> Field(<<"-g">>, "flag"),
     use_momentum |-> Field(<<"-m">>, "flag")]

\* The interface instances and the class of each
Conmats == {"conmat", "conmat2"}
Inst == Conmats \cup {"smooth"}

Fields(self) == IF self \in Conmats THEN ConmatFields ELSE SmoothFields
InputSpec(self) == IF self \in Conmats THEN ConmatInputSpec ELSE SmoothTessellationInputSpec
SmoothCmd == "mris_smooth"
BaseCommand(self) == IF self \in Conmats THEN _cmd ELSE SmoothCmd
FieldNames(self) == {Fields(self)[i] : i \in 1..Len(Fields(self))}

\* ------------------------------------------------------------ environment

MaxCwdDepth == 1

DirName(k) == IF k = 1 THEN "data" ELSE "sub"

\* The directory k levels below the root: "/", "/data", "/data/sub", ...
RECURSIVE CwdAt(_)
CwdAt(k) ==
    IF k = 0 THEN <<"/">>
    ELSE IF k = 1 THEN <<"/", DirName(1)>>
    ELSE CwdAt(k - 1) \o <<"/", DirName(k)>>

Cwds == {CwdAt(k) : k \in 0..MaxCwdDepth}

\* The test data directory the doctests change into, and the files in it
datadir == <<"/", "data">>

Files ==
    {datadir \o <<"/">> \o f :
        f \in {<<"tracts", ".", "Bdouble">>, <<"atlas", ".", "nii", ".", "gz">>,
               <<"fa", ".", "nii", ".", "gz">>, <<"names", ".", "txt">>}}

path_exists(dir, p) == abspath(dir, p) \in Files

\* ------------------------------------------------ validation (spec.md 4.2)

Violation(kind, f) == [kind |-> kind, field |-> f]

MissingRequired(S, inp) ==
    {Violation("MissingRequiredFieldError", f) :
        f \in {g \in DOMAIN S : S[g].mandatory /\ ~isdefined(inp[g])}}

MutuallyExclusive(S, inp) ==
    {Violation("MutuallyExclusiveFieldError", f) :
        f \in {g \in DOMAIN S :
                 /\ S[g].xor # {}
                 /\ Cardinality({h \in {g} \cup S[g].xor : isdefined(inp[h])}) > 1}}

MissingDependency(S, inp) ==
    {Violation("MissingDependencyError", f) :
        f \in {g \in DOMAIN S :
                 /\ isdefined(inp[g])
                 /\ \E h \in S[g].requires : ~isdefined(inp[h])}}

PathNotFound(S, inp, dir) ==
    {Violation("PathNotFoundError", f) :
        f \in {g \in DOMAIN S :
                 S[g].exists /\ isdefined(inp[g]) /\ ~path_exists(dir, Val(inp[g]))}}

\* Exhaustive: every violation of the four rules, collected in one pass
Validate(S, inp, dir) ==
    MissingRequired(S, inp) \cup MutuallyExclusive(S, inp)
        \cup MissingDependency(S, inp) \cup PathNotFound(S, inp, dir)

\* ------------------------------------------------- rendering (spec.md 4.3)

\* SmoothTessellation's deferred rule for out_file
SmoothGenFilename(self_inputs, name, dir) ==
    IF name = "out_file" /\ isdefined(self_inputs.in_file)
    THEN LET parts == split_filename(Val(self_inputs.in_file))
         IN  Returned(abspath(dir, parts.fname \o <<"_", "smoothed">> \o parts.ext))
    ELSE Raised("NoDefault")

\* The deferred computation rule of a generated field
GenDefault(self, inp, f, dir) ==
    IF self \in Conmats THEN _gen_filename(inp, f) ELSE SmoothGenFilename(inp, f, dir)

\* The value a field is rendered with: the caller's, else the generated default
Materialize(self, inp, f, dir) ==
    IF isdefined(inp[f]) THEN inp[f]
    ELSE IF InputSpec(self)[f].genfile
         THEN LET g == GenDefault(self, inp, f, dir)
              IN  IF g.ok THEN Def(g.value) ELSE Undefined
         ELSE Undefined

ValueStr(kind, v) == IF kind = "int" THEN ToString(v) ELSE Str(v)

\* The tokens of one field: a flag emits its template when true and nothing
\* when false; a value field fills the placeholder of its template
FormatArg(fs, v) ==
    IF fs.kind = "flag" THEN (IF v THEN fs.argstr ELSE <<>>)
    ELSE [i \in 1..Len(fs.argstr) |->
            IF fs.argstr[i] \in {"%s", "%d"} THEN ValueStr(fs.kind, v) ELSE fs.argstr[i]]

FieldTokens(self, inp, f, dir) ==
    LET fs == InputSpec(self)[f]
        v == Materialize(self, inp, f, dir)
    IN  IF fs.argstr = <<>> \/ ~isdefined(v) THEN <<>> ELSE FormatArg(fs, Val(v))

\* The unpositioned fields, in declaration order
RECURSIVE Unpositioned(_, _, _, _)
Unpositioned(self, inp, fields, dir) ==
    IF fields = <<>> THEN <<>>
    ELSE (IF isdefined(InputSpec(self)[Head(fields)].position) THEN <<>>
          ELSE FieldTokens(self, inp, Head(fields), dir))
         \o Unpositioned(self, inp, Tail(fields), dir)

\* The positioned fields among fs, by ascending position
RECURSIVE Positioned(_, _, _, _)
Positioned(self, inp, fs, dir) ==
    IF fs = {} THEN <<>>
    ELSE LET f == CHOOSE g \in fs : \A h \in fs :
                      Val(InputSpec(self)[g].position) <= Val(InputSpec(self)[h].position)
         IN  FieldTokens(self, inp, f, dir) \o Positioned(self, inp, fs \ {f}, dir)

\* Base token, then positions >= 0, the unpositioned fields, positions < 0
CommandLine(self, inp, dir) ==
    LET S == InputSpec(self)
        first == {f \in DOMAIN S : isdefined(S[f].position) /\ Val(S[f].position) >= 0}
        last == {f \in DOMAIN S : isdefined(S[f].position) /\ Val(S[f].position) < 0}
    IN  <<BaseCommand(self)>> \o Positioned(self, inp, first, dir)
            \o Unpositioned(self, inp, Fields(self), dir)
            \o Positioned(self, inp, last, dir)

\* -------------------------------------------------------------- operations

\* What an operation hands back to its caller
Ret0 ==
    [op |-> "none", self |-> "", name |-> "", ok |-> TRUE, error |-> "",
     errors |-> {}, cmdline |-> <<>>, value |-> <<>>, outputs |-> NoOutputs]

NoSaved ==
    [op |-> "none", ok |-> TRUE, error |-> "", outputs |-> NoOutputs,
     fields |-> <<>>, cwd |-> <<>>]

Unset(self) == [f \in FieldNames(self) |-> Undefined]

Init ==
    /\ inputs = [self \in Inst |-> Unset(self)]
    /\ phase = [self \in Inst |-> "Unpopulated"]
    /\ cwd \in Cwds
    /\ ret = Ret0
    /\ saved = NoSaved

\* self.inputs.<f> = v; an instance is immutable once rendered
SetField(self, f, v) ==
    /\ phase[self] # "Rendered"
    /\ inputs' = [inputs EXCEPT ![self][f] = Def(v)]
    /\ phase' = [phase EXCEPT ![self] = "Populated"]
    /\ ret' = [Ret0 EXCEPT !.op = "set", !.self = self]
    /\ UNCHANGED <<cwd, saved>>

\* A new execution takes a new instance
New(self) ==
    /\ phase[self] # "Unpopulated"
    /\ inputs' = [inputs EXCEPT ![self] = Unset(self)]
    /\ phase' = [phase EXCEPT ![self] = "Unpopulated"]
    /\ ret' = [Ret0 EXCEPT !.op = "new", !.self = self]
    /\ UNCHANGED <<cwd, saved>>

\* os.chdir(d) by the caller
Chdir(d) ==
    /\ d # cwd
    /\ cwd' = d
    /\ ret' = [Ret0 EXCEPT !.op = "chdir"]
    /\ UNCHANGED <<inputs, phase, saved>>

\* Validate, then render: the violations are reported together and nothing
\* is rendered, or the instance becomes Rendered and the tokens are returned
Render(self) ==
    /\ phase[self] # "Rendered"
    /\ LET errs == Validate(InputSpec(self), inputs[self], cwd)
       IN  IF errs = {}
           THEN /\ phase' = [phase EXCEPT ![self] = "Rendered"]
                /\ ret' = [Ret0 EXCEPT !.op = "render", !.self = self,
                                       !.cmdline = CommandLine(self, inputs[self], cwd)]
           ELSE /\ phase' = phase
                /\ ret' = [Ret0 EXCEPT !.op = "render", !.self = self, !.ok = FALSE,
                                       !.error = "ValidationError", !.errors = errs]
    /\ UNCHANGED <<inputs, cwd, saved>>

\* conmat._list_outputs()
ListOutputs(self) ==
    /\ LET r == _list_outputs(inputs[self], cwd)
       IN  ret' = [Ret0 EXCEPT !.op = "list_outputs", !.self = self, !.ok = r.ok,
                               !.error = r.error,
                               !.outputs = IF r.ok THEN r.value ELSE NoOutputs]
    /\ UNCHANGED <<inputs, phase, cwd, saved>>

\* Faulty variant: the generated default is stored into the inputs
GenFilename_caching(self, name) ==
    /\ LET r == _gen_filename(inputs[self], name)
       IN  /\ ret' = [Ret0 EXCEPT !.op = "gen_filename", !.self = self, !.name = name,
                                  !.ok = r.ok, !.error = r.error, !.value = r.value]
           /\ inputs' = IF r.ok THEN [inputs EXCEPT ![self].output_root = Def(r.value)]
                        ELSE inputs
    /\ UNCHANGED <<phase, cwd, saved>>

\* conmat._gen_filename(name)
GenFilename(self, name) ==
    /\ LET r == _gen_filename(inputs[self], name)
       IN  ret' = [Ret0 EXCEPT !.op = "gen_filename", !.self = self, !.name = name,
                               !.ok = r.ok, !.error = r.error, !.value = r.value]
    /\ UNCHANGED <<inputs, phase, cwd, saved>>

\* conmat._gen_outfilename()
GenOutfilename(self) ==
    /\ LET r == _gen_outfilename(inputs[self])
       IN  ret' = [Ret0 EXCEPT !.op = "gen_outfilename", !.self = self,
                               !.ok = r.ok, !.error = r.error, !.value = r.value]
    /\ UNCHANGED <<inputs, phase, cwd, saved>>

\* The caller keeps the outputs it was just handed, with the field values
\* and the working directory of that call
Save ==
    /\ ret.op = "list_outputs"
    /\ saved' = [op |-> "list_outputs", ok |-> ret.ok, error |-> ret.error,
                 outputs |-> ret.outputs, fields |-> inputs[ret.self], cwd |-> cwd]
    /\ saved' # saved
    /\ UNCHANGED <<inputs, phase, cwd, ret>>

\* ------------------------------------------------------ the callers' inputs

Atom(S) == {<<v>> : v \in S}

\* One Conmat instance through its life, every field in play
LifecycleValues(f) ==
    CASE f = "in_file" -> {<<"tracts", ".", "Bdouble">>, datadir \o <<"/", "tracts", ".", "Bdouble">>}
      [] f = "target_file" -> {<<"atlas", ".", "nii", ".", "gz">>}
      [] f = "scalar_file" -> {<<"fa", ".", "nii", ".", "gz">>}
      [] f = "targetname_file" -> {<<"names", ".", "txt">>}
      [] f = "tract_stat" -> Atom(tract_stat_values)
      [] f = "tract_prop" -> Atom(tract_prop_values)
      [] f = "output_root" -> {<<"out", "_">>}

\* One Conmat instance and the fields the output resolver reads, with
\* target_file so that the instance can be rendered
ResolverFields == {"in_file", "output_root", "target_file"}

ResolverValues(f) ==
    CASE f = "in_file" -> {<<"tracts", ".", "Bdouble">>,
                           <<"sub", "/", "tracts", ".", "NII", ".", "GZ">>,
                           <<"/", "scans", ".", "d", "/", ".", "tracts">>,
                           <<"/", "data", "/", "fa", ".", "v2", ".", "nii">>}
      [] f = "output_root" -> {<<"out", "_">>,
                               <<".", ".", "/", "res", "/", "out", "_">>,
                               <<"/", "tmp", "/", "run", ".", "1", "_">>}
      [] f = "target_file" -> {<<"atlas", ".", "nii", ".", "gz">>}

GenNames == {"output_root", "in_file", "conmat_sc"}

\* Two Conmat instances whose results the caller compares
TwoCallsValues(f) ==
    CASE f = "in_file" -> {<<"tracts", ".", "Bdouble">>}
      [] f = "target_file" -> {<<"atlas", ".", "nii", ".", "gz">>}
      [] f = "output_root" -> {<<"out", "_">>}

TwoCallsFields == {"in_file", "target_file", "output_root"}

SmoothValues(f) ==
    LET fs == SmoothTessellationInputSpec[f]
    IN  IF fs.argstr = <<>> THEN {}
        ELSE IF fs.kind = "int" THEN {10}
        ELSE IF fs.kind = "flag" THEN (IF f = "disable_estimates" THEN BOOLEAN ELSE {TRUE})
        ELSE IF f = "args" THEN {<<"-v">>}
        ELSE IF f = "in_file" THEN {<<"lh", ".", "hull">>}
        ELSE IF f = "out_file" THEN {<<"lh", ".", "smooth">>}
        ELSE IF f = "out_area_file" THEN {<<"lh", ".", "area">>}
        ELSE {<<"lh", ".", "curv">>}

\* --------------------------------------------------------- specifications

Next ==
    \/ \E f \in FieldNames("conmat") : \E v \in LifecycleValues(f) : SetField("conmat", f, v)
    \/ Render("conmat")
    \/ New("conmat")
    \/ \E d \in Cwds : Chdir(d)
    \/ ListOutputs("conmat")

Spec == Init /\ [][Next]_vars

ResolverNext ==
    \/ \E f \in ResolverFields : \E v \in ResolverValues(f) : SetField("conmat", f, v)
    \/ ListOutputs("conmat")
    \/ \E name \in GenNames : GenFilename("conmat", name)
    \/ GenOutfilename("conmat")
    \/ Render("conmat")
    \/ New("conmat")
    \/ \E d \in Cwds : Chdir(d)

SpecResolver == Init /\ [][ResolverNext]_vars

TwoCallsNext ==
    \/ \E self \in Conmats : \E f \in TwoCallsFields : \E v \in TwoCallsValues(f) :
          SetField(self, f, v)
    \/ \E self \in Conmats : Render(self)
    \/ \E self \in Conmats : ListOutputs(self)
    \/ \E d \in Cwds : Chdir(d)
    \/ Save

SpecTwoCalls == Init /\ [][TwoCallsNext]_vars

SmoothInit ==
    /\ inputs = [self \in Inst |-> Unset(self)]
    /\ phase = [self \in Inst |-> "Unpopulated"]
    /\ cwd = datadir
    /\ ret = Ret0
    /\ saved = NoSaved

SmoothNext ==
    \/ \E f \in FieldNames("smooth") : \E v \in SmoothValues(f) : SetField("smooth", f, v)
    \/ Render("smooth")
    \/ New("smooth")

SpecSmooth == SmoothInit /\ [][SmoothNext]_vars

\* ------------------------------------------------------------------ claims

\* Vocabulary of the claims
SC == <<"sc", ".", "csv">>
TS == <<"ts", ".", "csv">>
Under(dir, name) == IF dir = <<"/">> THEN dir \o name ELSE dir \o <<"/">> \o name
IsCall(op) == ret.op = op /\ ret.self = "conmat"
In(f) == inputs["conmat"][f]

\* The stem of each in_file the resolver is given: directory and extension stripped
StemOf(in_file) ==
    CASE in_file = <<"tracts", ".", "Bdouble">> -> <<"tracts">>
      [] in_file = <<"sub", "/", "tracts", ".", "NII", ".", "GZ">> -> <<"tracts">>
      [] in_file = <<"/", "scans", ".", "d", "/", ".", "tracts">> -> <<".", "tracts">>
      [] in_file = <<"/", "data", "/", "fa", ".", "v2", ".", "nii">> -> <<"fa", ".", "v2">>

\* C1: with output_root unset and in_file of stem s, _list_outputs returns
\* conmat_sc = <cwd>/<s>_sc.csv and conmat_ts = <cwd>/<s>_ts.csv, anchored at
\* the current working directory and not at the directory of in_file; for
\* stem "tracts" the file names are exactly tracts_sc.csv and tracts_ts.csv.
C1_DefaultOutputs ==
    (IsCall("list_outputs") /\ ~isdefined(In("output_root")) /\ isdefined(In("in_file")))
    => LET s == StemOf(Val(In("in_file")))
           sc == Val(ret.outputs.conmat_sc)
           ts == Val(ret.outputs.conmat_ts)
       IN  /\ ret.ok
           /\ sc = Under(cwd, s \o <<"_">> \o SC)
           /\ ts = Under(cwd, s \o <<"_">> \o TS)
           /\ Str(s) = "tracts" =>
                 /\ Str(sc) = Str(Under(cwd, <<>>)) \o "tracts_sc.csv"
                 /\ Str(ts) = Str(Under(cwd, <<>>)) \o "tracts_ts.csv"

C1_Witness ==
    /\ IsCall("list_outputs")
    /\ ~isdefined(In("output_root"))
    /\ In("in_file") = Def(<<"sub", "/", "tracts", ".", "NII", ".", "GZ">>)
    /\ cwd = datadir
    /\ Str(Val(ret.outputs.conmat_sc)) = "/data/tracts_sc.csv"
    /\ Str(Val(ret.outputs.conmat_ts)) = "/data/tracts_ts.csv"

\* C2: with output_root set to r, the output root used is r verbatim
\* (_gen_outfilename / _gen_outputroot return r), the outputs are the
\* absolute paths of r + "sc.csv" and r + "ts.csv", and no value of in_file,
\* set or unset, changes either output path.
C2_ExplicitRoot ==
    isdefined(In("output_root"))
    => LET r == Val(In("output_root"))
       IN  /\ IsCall("gen_outfilename") => ret.ok /\ ret.value = r
           /\ IsCall("list_outputs") =>
                 /\ ret.ok
                 /\ ret.outputs.conmat_sc = Def(abspath(cwd, r \o SC))
                 /\ ret.outputs.conmat_ts = Def(abspath(cwd, r \o TS))
                 /\ \A v \in {Undefined} \cup {Def(x) : x \in ResolverValues("in_file")} :
                       LET other == _list_outputs([inputs["conmat"] EXCEPT !.in_file = v], cwd)
                       IN  other.ok /\ other.value = ret.outputs

C2_Witness ==
    /\ IsCall("list_outputs")
    /\ In("output_root") = Def(<<".", ".", "/", "res", "/", "out", "_">>)
    /\ In("in_file") = Def(<<"sub", "/", "tracts", ".", "NII", ".", "GZ">>)
    /\ cwd = datadir
    /\ Str(Val(ret.outputs.conmat_sc)) = "/res/out_sc.csv"
    /\ Str(Val(ret.outputs.conmat_ts)) = "/res/out_ts.csv"

\* C10: _gen_filename(name) returns a value only for name = 'output_root',
\* the in_file stem followed by "_"; for every other name it ends in an
\* error; and the call changes no input field (output_root stays unset).
C10_GenFilename ==
    [][ret'.op = "gen_filename" =>
          /\ inputs' = inputs
          /\ (ret'.name = "output_root" /\ isdefined(In("in_file"))) =>
                /\ ret'.ok
                /\ ret'.value = StemOf(Val(In("in_file"))) \o <<"_">>
          /\ ret'.name # "output_root" =>
                ~ret'.ok /\ ret'.error = "UnboundLocalError" /\ ret'.value = <<>>
          /\ ret'.ok => ret'.name = "output_root"]_vars

C10_Witness ==
    /\ IsCall("gen_filename")
    /\ ret.name = "output_root"
    /\ ret.ok
    /\ Str(ret.value) = "fa.v2_"
    /\ ~isdefined(In("output_root"))

\* Two _list_outputs results side by side: the one the caller kept and the
\* one just returned, made with identical field values
SameFields ==
    /\ saved.op = "list_outputs"
    /\ ret.op = "list_outputs"
    /\ saved.fields = inputs[ret.self]

SameOutputs == saved.ok = ret.ok /\ saved.error = ret.error /\ saved.outputs = ret.outputs

IndexOf(cmd, t) ==
    LET I == {i \in 1..Len(cmd) : cmd[i] = t}
    IN  IF I = {} THEN 0 ELSE CHOOSE i \in I : \A j \in I : i <= j

HasPair(cmd, flag, value) ==
    \E i \in 1..(Len(cmd) - 1) : cmd[i] = flag /\ cmd[i + 1] = value

PathFields == {"in_file", "target_file", "scalar_file", "targetname_file"}

AllSetPathsExist ==
    \A f \in PathFields : isdefined(In(f)) => abspath(cwd, Val(In(f))) \in Files

MandatorySet == isdefined(In("in_file")) /\ isdefined(In("target_file"))

\* The instance of the docstring's first example: only in_file and target_file set
ExampleOnly ==
    /\ In("in_file") = Def(<<"tracts", ".", "Bdouble">>)
    /\ In("target_file") = Def(<<"atlas", ".", "nii", ".", "gz">>)
    /\ \A f \in FieldNames("conmat") \ {"in_file", "target_file"} : ~isdefined(In(f))

BothSet == isdefined(In("tract_stat")) /\ isdefined(In("tract_prop"))
OnlyStat == isdefined(In("tract_stat")) /\ ~isdefined(In("tract_prop"))
OnlyProp == ~isdefined(In("tract_stat")) /\ isdefined(In("tract_prop"))

\* C5 as stated, read in its favour (every set path exists, and "alone"
\* leaves the other optional fields unset): with the mandatory fields set,
\* tract_stat with tract_prop fails with a mutually-exclusive-field error,
\* and tract_stat alone or tract_prop alone succeeds.
C5_Original ==
    (IsCall("render") /\ MandatorySet /\ AllSetPathsExist)
    => /\ BothSet => /\ ~ret.ok
                     /\ \E v \in ret.errors : v.kind = "MutuallyExclusiveFieldError"
       /\ ((OnlyStat \/ OnlyProp)
             /\ \A f \in {"scalar_file", "targetname_file", "output_root"} : ~isdefined(In(f)))
            => ret.ok

\* C5: with the mandatory fields set and every set path existing, tract_stat
\* with tract_prop fails with a mutually-exclusive-field error naming both;
\* tract_prop alone succeeds exactly when scalar_file is unset; tract_stat
\* alone succeeds exactly when scalar_file, which it requires, is set, and
\* fails with a missing-dependency error otherwise.
C5_Xor ==
    (IsCall("render") /\ MandatorySet /\ AllSetPathsExist)
    => /\ BothSet =>
             /\ ~ret.ok
             /\ Violation("MutuallyExclusiveFieldError", "tract_stat") \in ret.errors
             /\ Violation("MutuallyExclusiveFieldError", "tract_prop") \in ret.errors
       /\ OnlyProp => (ret.ok <=> ~isdefined(In("scalar_file")))
       /\ OnlyStat => (ret.ok <=> isdefined(In("scalar_file")))
       /\ (OnlyStat /\ ~isdefined(In("scalar_file")))
            => Violation("MissingDependencyError", "tract_stat") \in ret.errors

C5_Witness ==
    /\ IsCall("render")
    /\ MandatorySet
    /\ AllSetPathsExist
    /\ OnlyStat
    /\ ~isdefined(In("scalar_file"))
    /\ ~ret.ok
    /\ ret.errors = {Violation("MissingDependencyError", "tract_stat")}

\* C6: when in_file or target_file is unset, validation fails with a
\* missing-required-field error naming each unset one, no token sequence is
\* produced, and the instance never reaches the Rendered state.
C6_MissingRequired ==
    /\ (IsCall("render") /\ ~MandatorySet)
         => /\ ~ret.ok
            /\ ret.cmdline = <<>>
            /\ phase["conmat"] # "Rendered"
            /\ \A f \in {"in_file", "target_file"} :
                  ~isdefined(In(f)) => Violation("MissingRequiredFieldError", f) \in ret.errors
    /\ phase["conmat"] = "Rendered" => MandatorySet

C6_Witness ==
    /\ IsCall("render")
    /\ isdefined(In("in_file"))
    /\ ~isdefined(In("target_file"))
    /\ ~ret.ok
    /\ Violation("MissingRequiredFieldError", "target_file") \in ret.errors
    /\ phase["conmat"] = "Populated"

\* Every violation of a Conmat instance, rule by rule
ExpectedViolations ==
    {Violation("MissingRequiredFieldError", f) :
        f \in {g \in {"in_file", "target_file"} : ~isdefined(In(g))}}
    \cup (IF BothSet
          THEN {Violation("MutuallyExclusiveFieldError", "tract_stat"),
                Violation("MutuallyExclusiveFieldError", "tract_prop")}
          ELSE {})
    \cup (IF isdefined(In("scalar_file")) /\ ~isdefined(In("tract_stat"))
          THEN {Violation("MissingDependencyError", "scalar_file")} ELSE {})
    \cup (IF isdefined(In("tract_stat")) /\ ~isdefined(In("scalar_file"))
          THEN {Violation("MissingDependencyError", "tract_stat")} ELSE {})
    \cup {Violation("PathNotFoundError", f) :
            f \in {g \in PathFields :
                     isdefined(In(g)) /\ abspath(cwd, Val(In(g))) \notin Files}}

\* C7: validation is exhaustive per call: the single reported failure lists
\* every violation of the instance, not only the first, and nothing is
\* rendered.
C7_Exhaustive ==
    IsCall("render")
    => /\ ret.ok <=> ExpectedViolations = {}
       /\ ~ret.ok => /\ ret.errors = ExpectedViolations
                     /\ ret.cmdline = <<>>
                     /\ phase["conmat"] # "Rendered"

C7_Witness ==
    /\ IsCall("render")
    /\ ~ret.ok
    /\ ~isdefined(In("target_file"))
    /\ BothSet
    /\ ~isdefined(In("scalar_file"))
    /\ {v.kind : v \in ret.errors}
         = {"MissingRequiredFieldError", "MutuallyExclusiveFieldError",
            "MissingDependencyError"}
    /\ Cardinality(ret.errors) = 4

Sm(f) == inputs["smooth"][f]
SmoothSpec == SmoothTessellationInputSpec

\* How many tokens the unpositioned fields among `fields` contribute
RECURSIVE UnpositionedCount(_)
UnpositionedCount(fields) ==
    IF fields = <<>> THEN 0
    ELSE LET f == Head(fields)
             n == IF f \in {"in_file", "out_file"} \/ ~isdefined(Sm(f)) THEN 0
                  ELSE IF SmoothSpec[f].kind = "flag"
                       THEN (IF Val(Sm(f)) THEN Len(SmoothSpec[f].argstr) ELSE 0)
                       ELSE Len(SmoothSpec[f].argstr)
         IN  n + UnpositionedCount(Tail(fields))

\* C8: in the SmoothTessellation input specification no two fields share a
\* position (in_file at -2, out_file at -1, every other field unpositioned),
\* out_file is generated and in_file mandatory; so in every rendered command
\* the out_file token is last and the in_file token second to last, after
\* every token of the unpositioned fields, whichever optional fields are set.
C8_Positions ==
    /\ \A f \in DOMAIN SmoothSpec : \A g \in DOMAIN SmoothSpec :
          (f # g /\ isdefined(SmoothSpec[f].position)) =>
              SmoothSpec[f].position # SmoothSpec[g].position
    /\ SmoothSpec["in_file"].position = <<-2>> /\ SmoothSpec["in_file"].mandatory
    /\ SmoothSpec["out_file"].position = <<-1>> /\ SmoothSpec["out_file"].genfile
    /\ \A f \in DOMAIN SmoothSpec \ {"in_file", "out_file"} :
          ~isdefined(SmoothSpec[f].position)
    /\ (ret.op = "render" /\ ret.self = "smooth" /\ ret.ok)
         => LET n == Len(ret.cmdline)
            IN  /\ n >= 3
                /\ ret.cmdline[n] =
                      (IF isdefined(Sm("out_file")) THEN Str(Val(Sm("out_file")))
                       ELSE Str(SmoothGenFilename(inputs["smooth"], "out_file", cwd).value))
                /\ ret.cmdline[n - 1] = Str(Val(Sm("in_file")))
                /\ n - 3 = UnpositionedCount(SmoothFields)
                /\ \A f \in DOMAIN SmoothSpec \ {"in_file", "out_file"} :
                      (isdefined(Sm(f)) /\ SmoothSpec[f].argstr # <<>>
                         /\ (SmoothSpec[f].kind = "flag" => Val(Sm(f)))
                         /\ SmoothSpec[f].argstr[1] \notin {"%s", "%d"})
                      => \E i \in 2..(n - 2) : ret.cmdline[i] = SmoothSpec[f].argstr[1]

C8_Witness ==
    /\ ret.op = "render" /\ ret.self = "smooth" /\ ret.ok
    /\ ~isdefined(Sm("out_file"))
    /\ isdefined(Sm("args")) /\ isdefined(Sm("seed")) /\ isdefined(Sm("use_momentum"))
    /\ Sm("disable_estimates") = Def(FALSE)
    /\ Len(ret.cmdline) = 7
    /\ ret.cmdline[6] = "lh.hull"
    /\ ret.cmdline[7] = "/data/lh_smoothed.hull"

====
